---- MODULE Spec2Model ----
(***************************************************************************)
(* A model of the file-backed REST storage of pkg/filepath                 *)
(* (jsonfile_rest.go): one filepathREST store, its directory tree, its     *)
(* watcher registry guarded by muWatchers, and concurrent callers of Get,  *)
(* List, Create, Update, Delete, DeleteCollection, Watch and Stop.  Every  *)
(* access to the file system or to the registry is one step of a caller.   *)
(***************************************************************************)
EXTENDS Integers, Sequences, FiniteSets, TLC

\* ------------------------------------------------------------------ bounds

\* Number of calls the callers start in one behaviour of Spec.
MaxOps == 3

\* Number of calls the callers start in one behaviour of SpecHub.
MaxHubOps == 4

\* Number of calls the callers start in one behaviour of SpecSnapshot.
MaxSnapshotOps == 2

\* Largest number of objects a pre-populated store holds (SpecSnapshot).
MaxObjs == 11

\* Number of calls the callers start in one behaviour of SpecScopes.
MaxScopeOps == 2

\* Number of calls the callers start in one behaviour of SpecFull.
MaxFullOps == 2

\* Number of objects the first scope of a pre-populated store holds
\* (SpecScopes).
MaxScopeObjs == 2

\* Number of visitDir calls the callers start in one behaviour of SpecVisit.
MaxVisitOps == 2

\* Capacity of a subscription's channel: make(chan watch.Event, 10).
ChanCap == 10

Procs == {"p1", "p2"}

Namespaces == {"ns1", "ns2"}

\* Names the callers pass to the operations.
Names == {"a"}

\* Names of the objects of a pre-populated store.
ObjNames == <<"o01", "o02", "o03", "o04", "o05", "o06", "o07", "o08", "o09",
              "o10", "o11", "o12", "o13">>

\* Every file and directory name of the model, in lexical order (the order
\* readDirNames sorts a directory's entries in).
LexOrder == <<"a", "b", "ns1", "ns2">> \o ObjNames

Vals == {1, 2}

NoNs == ""

None == "none"

\* A nil runtime.Object.
Nil == [nil |-> TRUE]

\* ------------------------------------------------------------------ state

VARIABLES
    isNamespaced,  \* filepathREST.isNamespaced
    dirs,          \* the directories under objRootPath (paths), the root included
    files,         \* the regular files under objRootPath: path -> content
    watchers,      \* filepathREST.watchers: id -> subscription
    muWatchers,    \* filepathREST.muWatchers: [readers, writer]
    subs,          \* the jsonWatch objects allocated so far
    pc,            \* each caller's position
    frame,         \* each caller's arguments and locals
    ret,           \* what each caller's last call returned
    opsLeft,       \* calls the callers may still start
    nEvents,       \* events built so far (an event's id)
    nWrites        \* files written or removed so far

vars == <<isNamespaced, dirs, files, watchers, muWatchers, subs, pc, frame, ret,
          opsLeft, nEvents, nWrites>>

\* ------------------------------------------------------------------ paths

\* A path is the sequence of its segments below objRootPath.
DirSeg(ns) == [base |-> ns, ext |-> ""]

\* name + ".json"
JsonSeg(name) == [base |-> name, ext |-> ".json"]

\* filepath.Join: empty elements are ignored.
Join(segs) == SelectSeq(segs, LAMBDA s : s # DirSeg(""))

objRootPath == <<>>

\* genericapirequest.NamespaceFrom(ctx): the namespace and whether it is set.
NamespaceFrom(ns) == [ns |-> ns, ok |-> ns # NoNs]

objectFileName(ns, name) ==
    IF isNamespaced
    THEN Join(<<DirSeg(NamespaceFrom(ns).ns), JsonSeg(name)>>)
    ELSE Join(<<JsonSeg(name)>>)

objectDirName(ns) ==
    IF isNamespaced THEN Join(<<DirSeg(NamespaceFrom(ns).ns)>>) ELSE objRootPath

\* os.Stat(filepath) succeeds.
exists(path) == path \in dirs \/ path \in DOMAIN files

\* ------------------------------------------------------------------ codec

\* Encode with the value left out of the document: every object is written
\* with value 1.
EncodeDropsVal(obj) == <<"json", obj.name, 1>>

\* codec.Encode: the JSON document of an object.
Encode(obj) == <<"json", obj.name, obj.val>>

\* codec.Decode of a document written by Encode.
Decode(content) == [name |-> content[2], val |-> content[3]]

\* read(): the decoded object, or the error of os.ReadFile.
read(path) ==
    IF path \in DOMAIN files
    THEN [err |-> None, obj |-> Decode(files[path])]
    ELSE [err |-> "ENOENT", obj |-> Nil]

\* filepathREST.Get: a missing file becomes NotFound, any other error BadRequest.
Get(ns, name) ==
    LET r == read(objectFileName(ns, name))
    IN  IF r.err # None
        THEN IF r.err # "ENOENT"
             THEN [err |-> "BadRequest", obj |-> Nil]
             ELSE [err |-> "NotFound", obj |-> Nil]
        ELSE r

\* ------------------------------------------------------------------ the walk

Rank(base) == CHOOSE i \in 1..Len(LexOrder) : LexOrder[i] = base

\* The paths of S as a sequence sorted by their last segment.
RECURSIVE SortedPaths(_)
SortedPaths(S) ==
    IF S = {} THEN <<>>
    ELSE LET m == CHOOSE x \in S :
                    \A y \in S : Rank(x[Len(x)].base) <= Rank(y[Len(y)].base)
         IN  <<m>> \o SortedPaths(S \ {m})

\* ReadDir cut after the first entry of the directory.
ReadDirFirst(dir) ==
    LET names == SortedPaths({q \in dirs \cup DOMAIN files :
                                 Len(q) = Len(dir) + 1 /\ SubSeq(q, 1, Len(dir)) = dir})
    IN  IF names = << >> THEN << >> ELSE <<Head(names)>>

\* readDirNames(dir) joined to dir: the entries of a directory, sorted.
ReadDir(dir) ==
    SortedPaths({q \in dirs \cup DOMAIN files :
                    Len(q) = Len(dir) + 1 /\ SubSeq(q, 1, Len(dir)) = dir})

\* strings.HasSuffix(info.Name(), ".json")
HasJsonSuffix(path) == path[Len(path)].ext = ".json"

\* ------------------------------------------------------------------ helpers

\* m with key k set to v / without key k (a Go map, or the files of the tree).
MapPut(m, k, v) == [x \in DOMAIN m \cup {k} |-> IF x = k THEN v ELSE m[x]]

MapDel(m, k) == [x \in DOMAIN m \ {k} |-> m[x]]

Range(m) == {m[x] : x \in DOMAIN m}

\* The orders in which a range over a Go map can yield the values of S.
Perms(S) ==
    {s \in [1..Cardinality(S) -> S] : \A i, j \in 1..Cardinality(S) : s[i] = s[j] => i = j}

\* Scopes a request context can carry: a namespace, or none.
CtxNamespaces == IF isNamespaced THEN Namespaces \cup {NoNs} ELSE {NoNs}

NoFrame == [op |-> None]

NoRet == [op |-> None]

\* What a call returns: the error (None on success) and, in obj, a record:
\* the object, Nil, [items] for a list, [w, items] for Watch's subscription
\* and snapshot, [w] for Stop; created is Update's second result.  The other
\* fields record the call for the properties: ev and typ are the event it broadcast, reg and alive the
\* subscriptions registered and alive when it did, rev the value of nWrites
\* after its own write (for Get, when it read; for List, when it was called;
\* for DeleteCollection, when it was called plus the files it removed), pre
\* the files when DeleteCollection was called, and gap the subscriptions
\* whose Watch had finished its List when the call wrote its file and had not
\* registered them when it broadcast.
Result(op, ns, name, err, obj) ==
    [op |-> op, ns |-> ns, name |-> name, err |-> err, obj |-> obj,
     created |-> FALSE, ev |-> 0, typ |-> None, reg |-> {}, alive |-> {},
     rev |-> 0, pre |-> << >>, gap |-> {}]

\* The number of events in a subscription's channel.
ChanLen(w) == Len(subs[w].hist) - subs[w].nread

\* os.WriteFile(path, Encode(obj), 0600): fails when the directory is missing.
WriteErr(path) ==
    IF SubSeq(path, 1, Len(path) - 1) \in dirs THEN None ELSE "ENOENT"

write(path, obj) == MapPut(files, path, Encode(obj))

\* ensureDir(dirname): os.MkdirAll unless the directory exists.
ensureDir(dirname) == IF ~exists(dirname) THEN dirs \cup {dirname} ELSE dirs

\* A caller returns r.
Return(p, r) ==
    /\ pc' = [pc EXCEPT ![p] = "idle"]
    /\ frame' = [frame EXCEPT ![p] = NoFrame]
    /\ ret' = [ret EXCEPT ![p] = r]

\* A caller moves on to label l with locals f.
Goto(p, l, f) ==
    /\ pc' = [pc EXCEPT ![p] = l]
    /\ frame' = [frame EXCEPT ![p] = f]
    /\ ret' = [ret EXCEPT ![p] = NoRet]

\* A caller starts a call.
Calls(p) ==
    /\ pc[p] = "idle"
    /\ opsLeft > 0
    /\ opsLeft' = opsLeft - 1

\* ------------------------------------------------------------------ Init

\* NewFilepathREST: the root directory exists, nothing is registered, and
\* the callers may start `budget` calls.
NewFilepathREST(budget) ==
    /\ watchers = << >>
    /\ muWatchers = [readers |-> {}, writer |-> None]
    /\ subs = << >>
    /\ pc = [p \in Procs |-> "idle"]
    /\ frame = [p \in Procs |-> NoFrame]
    /\ ret = [p \in Procs |-> NoRet]
    /\ opsLeft = budget
    /\ nEvents = 0
    /\ nWrites = 0

\* The tree holding n objects, o01.. with value 1, in namespace ns1 of a
\* namespaced store and in the root of a cluster-scoped one.
Populated(n) ==
    /\ dirs = IF isNamespaced /\ n > 0
              THEN {objRootPath, Join(<<DirSeg("ns1")>>)}
              ELSE {objRootPath}
    /\ files = [q \in {objectFileName("ns1", ObjNames[i]) : i \in 1..n} |->
                   Encode([name |-> q[Len(q)].base, val |-> 1])]

\* A new store over an empty directory.
Init ==
    /\ isNamespaced \in BOOLEAN
    /\ Populated(0)
    /\ NewFilepathREST(MaxOps)

\* ------------------------------------------------------------------ notifyWatchers

\* The caller goes on to notifyWatchers(ev) and will return r after it.
Notify(p, typ, obj, r) ==
    /\ nEvents' = nEvents + 1
    /\ Goto(p, "notify",
            [op |-> r.op, order |-> << >>,
             ev |-> [id |-> nEvents + 1, type |-> typ, obj |-> obj],
             result |-> [r EXCEPT !.ev = nEvents + 1, !.typ = typ,
                                  !.rev = nWrites + 1,
                                  !.gap = {frame[q].w : q \in
                                              {x \in Procs : pc[x] \in
                                                  {"watch_send", "watch_register"}}}]])

\* f.muWatchers.RLock(): waits while a writer holds or awaits the lock; then
\* the range over f.watchers starts, in some order.
NotifyRLock(p) ==
    /\ pc[p] = "notify"
    /\ muWatchers.writer = None
    /\ muWatchers' = [muWatchers EXCEPT !.readers = @ \cup {p}]
    /\ \E order \in Perms(Range(watchers)) :
          /\ pc' = [pc EXCEPT ![p] = "notify_send"]
          /\ frame' = [frame EXCEPT
                          ![p].order = order,
                          ![p].result.reg = Range(watchers),
                          ![p].result.alive =
                              {w \in 1..Len(subs) : subs[w].state = "active"},
                          ![p].result.gap =
                              {w \in @ : subs[w].state = "created"}]
    /\ UNCHANGED <<isNamespaced, dirs, files, watchers, subs, ret, opsLeft,
                   nEvents, nWrites>>

\* NotifySend with the send left out: the range moves on past a watcher.
NotifySendSkips(p) ==
    /\ pc[p] = "notify_send"
    /\ frame[p].order # << >>
    /\ frame' = [frame EXCEPT ![p].order = Tail(@)]
    /\ UNCHANGED <<isNamespaced, dirs, files, watchers, muWatchers, subs, pc, ret,
                   opsLeft, nEvents, nWrites>>

\* NotifySend as a send that does not block: the event is dropped when the
\* channel is full.
NotifySendDrops(p) ==
    /\ pc[p] = "notify_send"
    /\ frame[p].order # << >>
    /\ LET w == Head(frame[p].order)
       IN  subs' = IF ChanLen(w) < ChanCap
                   THEN [subs EXCEPT ![w].hist = Append(@, frame[p].ev)]
                   ELSE subs
    /\ frame' = [frame EXCEPT ![p].order = Tail(@)]
    /\ UNCHANGED <<isNamespaced, dirs, files, watchers, muWatchers, pc, ret, opsLeft,
                   nEvents, nWrites>>

\* w.ch <- ev: blocks while the channel is full.
NotifySend(p) ==
    /\ pc[p] = "notify_send"
    /\ frame[p].order # << >>
    /\ LET w == Head(frame[p].order)
       IN  /\ ChanLen(w) < ChanCap
           /\ subs' = [subs EXCEPT ![w].hist = Append(@, frame[p].ev)]
    /\ frame' = [frame EXCEPT ![p].order = Tail(@)]
    /\ UNCHANGED <<isNamespaced, dirs, files, watchers, muWatchers, pc, ret, opsLeft,
                   nEvents, nWrites>>

\* f.muWatchers.RUnlock(), and the mutating call returns.
NotifyRUnlock(p) ==
    /\ pc[p] = "notify_send"
    /\ frame[p].order = << >>
    /\ muWatchers' = [muWatchers EXCEPT !.readers = @ \ {p}]
    /\ Return(p, frame[p].result)
    /\ UNCHANGED <<isNamespaced, dirs, files, watchers, subs, opsLeft,
                   nEvents, nWrites>>

\* ------------------------------------------------------------------ Get

GetCall(p) ==
    /\ Calls(p)
    /\ \E ns \in CtxNamespaces, name \in Names :
          LET r == Get(ns, name)
          IN  Return(p, [Result("Get", ns, name, r.err, r.obj) EXCEPT
                            !.rev = nWrites])
    /\ UNCHANGED <<isNamespaced, dirs, files, watchers, muWatchers, subs,
                   nEvents, nWrites>>

\* ------------------------------------------------------------------ Create

\* createValidation, the namespace directory, meta.Accessor.
CreateCall(p) ==
    /\ Calls(p)
    /\ \E ns \in CtxNamespaces, name \in Names, val \in Vals, valid \in BOOLEAN :
          LET obj == [name |-> name, val |-> val]
              r(err) == Result("Create", ns, name, err, Nil)
          IN  IF ~valid
              THEN /\ Return(p, r("Invalid"))
                   /\ dirs' = dirs
              ELSE IF isNamespaced /\ ~NamespaceFrom(ns).ok
              THEN /\ Return(p, r("ErrNamespaceNotExists"))
                   /\ dirs' = dirs
              ELSE /\ dirs' = IF isNamespaced
                              THEN ensureDir(Join(<<DirSeg(ns)>>))
                              ELSE dirs
                   /\ Goto(p, "create_probe",
                           [op |-> "Create", ns |-> ns, name |-> name, obj |-> obj])
    /\ UNCHANGED <<isNamespaced, files, watchers, muWatchers, subs, nEvents,
                   nWrites>>

\* if exists(filename) { return nil, ErrFileNotExists }
CreateProbe(p) ==
    /\ pc[p] = "create_probe"
    /\ LET f == frame[p]
       IN  IF exists(objectFileName(f.ns, f.name))
           THEN Return(p, Result("Create", f.ns, f.name, "ErrFileNotExists", Nil))
           ELSE Goto(p, "create_write", f)
    /\ UNCHANGED <<isNamespaced, dirs, files, watchers, muWatchers, subs, opsLeft,
                   nEvents, nWrites>>

\* write(f.codec, filename, obj), then notifyWatchers(Added).
CreateWrite(p) ==
    /\ pc[p] = "create_write"
    /\ LET f == frame[p]
           path == objectFileName(f.ns, f.name)
       IN  IF WriteErr(path) # None
           THEN /\ Return(p, Result("Create", f.ns, f.name, WriteErr(path), Nil))
                /\ UNCHANGED <<files, nEvents, nWrites>>
           ELSE /\ files' = write(path, f.obj)
                /\ nWrites' = nWrites + 1
                /\ Notify(p, "Added", f.obj,
                          Result("Create", f.ns, f.name, None, f.obj))
    /\ UNCHANGED <<isNamespaced, dirs, watchers, muWatchers, subs, opsLeft>>

\* ------------------------------------------------------------------ Update

\* oldObj, err := f.Get(ctx, name, nil)
UpdateCall(p) ==
    /\ Calls(p)
    /\ \E ns \in CtxNamespaces, name \in Names, forceAllowCreate \in BOOLEAN :
          LET g == Get(ns, name)
          IN  IF g.err # None /\ ~forceAllowCreate
              THEN Return(p, Result("Update", ns, name, g.err, Nil))
              ELSE Goto(p, "update_dir",
                        [op |-> "Update", ns |-> ns, name |-> name,
                         isCreate |-> g.err # None, oldObj |-> g.obj])
    /\ UNCHANGED <<isNamespaced, dirs, files, watchers, muWatchers, subs,
                   nEvents, nWrites>>

\* The namespace directory, objInfo.UpdatedObject and the validation that
\* applies (createValidation when creating, updateValidation otherwise).
UpdateDir(p) ==
    /\ pc[p] = "update_dir"
    /\ LET f == frame[p]
           r(err) == Result("Update", f.ns, f.name, err, Nil)
       IN  IF isNamespaced /\ ~NamespaceFrom(f.ns).ok
           THEN /\ Return(p, r("ErrNamespaceNotExists"))
                /\ dirs' = dirs
           ELSE /\ dirs' = IF isNamespaced
                           THEN ensureDir(Join(<<DirSeg(f.ns)>>))
                           ELSE dirs
                /\ \E updated \in BOOLEAN, val \in Vals, valid \in BOOLEAN :
                      IF ~updated
                      THEN Return(p, r("UpdatedObjectFailed"))
                      ELSE IF ~valid
                      THEN Return(p, r("Invalid"))
                      ELSE Goto(p, "update_write",
                                [op |-> "Update", ns |-> f.ns, name |-> f.name,
                                 isCreate |-> f.isCreate, oldObj |-> f.oldObj,
                                 updatedObj |-> [name |-> f.name, val |-> val]])
    /\ UNCHANGED <<isNamespaced, files, watchers, muWatchers, subs, opsLeft,
                   nEvents, nWrites>>

\* UpdateWrite with the create path left out: the event is always Modified
\* and created is false.
UpdateWriteModifies(p) ==
    /\ pc[p] = "update_write"
    /\ LET f == frame[p]
           updatedObj == f.updatedObj
           path == objectFileName(f.ns, f.name)
           r(err, obj) == Result("Update", f.ns, f.name, err, obj)
       IN  IF WriteErr(path) # None
           THEN /\ Return(p, r(WriteErr(path), Nil))
                /\ UNCHANGED <<files, nEvents, nWrites>>
           ELSE /\ files' = write(path, updatedObj)
                /\ nWrites' = nWrites + 1
                /\ Notify(p, "Modified", updatedObj, r(None, updatedObj))
    /\ UNCHANGED <<isNamespaced, dirs, watchers, muWatchers, subs, opsLeft>>

\* write(f.codec, filename, updatedObj), then notifyWatchers(Added or Modified).
UpdateWrite(p) ==
    /\ pc[p] = "update_write"
    /\ LET f == frame[p]
           updatedObj == f.updatedObj
           path == objectFileName(f.ns, f.name)
           r(err, obj) == [Result("Update", f.ns, f.name, err, obj)
                              EXCEPT !.created = (err = None /\ f.isCreate)]
       IN  IF WriteErr(path) # None
           THEN /\ Return(p, r(WriteErr(path), Nil))
                /\ UNCHANGED <<files, nEvents, nWrites>>
           ELSE /\ files' = write(path, updatedObj)
                /\ nWrites' = nWrites + 1
                /\ Notify(p, IF f.isCreate THEN "Added" ELSE "Modified", updatedObj,
                          r(None, updatedObj))
    /\ UNCHANGED <<isNamespaced, dirs, watchers, muWatchers, subs, opsLeft>>

\* ------------------------------------------------------------------ Delete

\* filename := f.objectFileName(ctx, name)
DeleteCall(p) ==
    /\ Calls(p)
    /\ \E ns \in CtxNamespaces, name \in Names :
          Goto(p, "delete_probe", [op |-> "Delete", ns |-> ns, name |-> name])
    /\ UNCHANGED <<isNamespaced, dirs, files, watchers, muWatchers, subs, nEvents,
                   nWrites>>

\* if !exists(filename) { return nil, false, ErrFileNotExists }
DeleteProbe(p) ==
    /\ pc[p] = "delete_probe"
    /\ LET f == frame[p]
       IN  IF ~exists(objectFileName(f.ns, f.name))
           THEN Return(p, Result("Delete", f.ns, f.name, "ErrFileNotExists", Nil))
           ELSE Goto(p, "delete_get", f)
    /\ UNCHANGED <<isNamespaced, dirs, files, watchers, muWatchers, subs, opsLeft,
                   nEvents, nWrites>>

\* DeleteGet with the validation moved behind os.Remove: a rejected Delete
\* has removed the file.
DeleteGetRemoves(p) ==
    /\ pc[p] = "delete_get"
    /\ LET f == frame[p]
           g == Get(f.ns, f.name)
           r(err) == Result("Delete", f.ns, f.name, err, Nil)
       IN  IF g.err # None
           THEN /\ Return(p, r(g.err))
                /\ UNCHANGED <<files, nWrites>>
           ELSE \E valid \in BOOLEAN :
                   IF ~valid
                   THEN /\ Return(p, r("Invalid"))
                        /\ files' = MapDel(files, objectFileName(f.ns, f.name))
                        /\ nWrites' = nWrites + 1
                   ELSE /\ Goto(p, "delete_remove",
                                [op |-> "Delete", ns |-> f.ns, name |-> f.name,
                                 oldObj |-> g.obj])
                        /\ UNCHANGED <<files, nWrites>>
    /\ UNCHANGED <<isNamespaced, dirs, watchers, muWatchers, subs, opsLeft,
                   nEvents>>

\* oldObj, err := f.Get(ctx, name, nil), then deleteValidation.
DeleteGet(p) ==
    /\ pc[p] = "delete_get"
    /\ LET f == frame[p]
           g == Get(f.ns, f.name)
           r(err) == Result("Delete", f.ns, f.name, err, Nil)
       IN  IF g.err # None
           THEN Return(p, r(g.err))
           ELSE \E valid \in BOOLEAN :
                   IF ~valid
                   THEN Return(p, r("Invalid"))
                   ELSE Goto(p, "delete_remove",
                             [op |-> "Delete", ns |-> f.ns, name |-> f.name,
                              oldObj |-> g.obj])
    /\ UNCHANGED <<isNamespaced, dirs, files, watchers, muWatchers, subs, opsLeft,
                   nEvents, nWrites>>

\* DeleteRemove with os.Remove left out: the file stays.
DeleteRemoveKeeps(p) ==
    /\ pc[p] = "delete_remove"
    /\ LET f == frame[p]
       IN  /\ files' = files
           /\ nWrites' = nWrites + 1
           /\ Notify(p, "Deleted", f.oldObj,
                     Result("Delete", f.ns, f.name, None, f.oldObj))
    /\ UNCHANGED <<isNamespaced, dirs, watchers, muWatchers, subs, opsLeft>>

\* os.Remove(filename), then notifyWatchers(Deleted).
DeleteRemove(p) ==
    /\ pc[p] = "delete_remove"
    /\ LET f == frame[p]
           path == objectFileName(f.ns, f.name)
       IN  IF path \notin DOMAIN files
           THEN /\ Return(p, Result("Delete", f.ns, f.name, "ENOENT", Nil))
                /\ UNCHANGED <<files, nEvents, nWrites>>
           ELSE /\ files' = MapDel(files, path)
                /\ nWrites' = nWrites + 1
                /\ Notify(p, "Deleted", f.oldObj,
                          Result("Delete", f.ns, f.name, None, f.oldObj))
    /\ UNCHANGED <<isNamespaced, dirs, watchers, muWatchers, subs, opsLeft>>

\* ------------------------------------------------------------------ visitDir

\* visitDir returned an error: List and DeleteCollection return "failed
\* walking filepath", and Watch returns List's error.
WalkFail(p, f) == Return(p, Result(f.op, f.ns, None, "WalkFailed", Nil))

\* The walk goes on with f.todo; when nothing is left visitDir returns nil:
\* List and DeleteCollection return the list, and Watch goes on to send it.
\* (DeleteCollection's result records the subscriptions that were registered
\* from its call to its return.)
WalkNext(p, f) ==
    IF f.todo # << >>
    THEN Goto(p, "walk", f)
    ELSE IF f.op = "Watch"
    THEN Goto(p, "watch_send", f)
    ELSE Return(p, [Result(f.op, f.ns, None, None, [items |-> f.items]) EXCEPT
                       !.reg = IF f.op = "DeleteCollection"
                               THEN f.reg0 \cap Range(watchers)
                               ELSE {},
                       !.rev = f.rev,
                       !.pre = IF f.op = "DeleteCollection" THEN f.pre ELSE << >>])

\* filepath.Walk(dirname, ...): os.Lstat(dirname), and the entries of the
\* directory; a missing dirname makes the callback return Lstat's error.
WalkRoot(p, f) ==
    LET dirname == objectDirName(f.ns)
    IN  IF dirname \notin dirs
        THEN WalkFail(p, f)
        ELSE WalkNext(p, [f EXCEPT !.todo = ReadDir(dirname)])

\* The walk reaches its next path: a vanished path aborts the walk, a
\* directory is read, a file is decoded and handed to visitFunc.
WalkVisit(p) ==
    /\ pc[p] = "walk"
    /\ LET f == frame[p]
           path == Head(f.todo)
           rest == Tail(f.todo)
       IN  IF ~exists(path)
           THEN WalkFail(p, f)
           ELSE IF path \in dirs
           THEN WalkNext(p, [f EXCEPT !.todo = ReadDir(path) \o rest])
           ELSE IF ~HasJsonSuffix(path)
           THEN WalkNext(p, [f EXCEPT !.todo = rest])
           ELSE IF read(path).err # None
           THEN WalkFail(p, f)
           ELSE IF f.op = "DeleteCollection"
           THEN Goto(p, "walk_remove", [f EXCEPT !.cur = read(path).obj])
           ELSE WalkNext(p, [f EXCEPT !.todo = rest,
                                          !.items = Append(@, read(path).obj)])
    /\ UNCHANGED <<isNamespaced, dirs, files, watchers, muWatchers, subs, opsLeft,
                   nEvents, nWrites>>

\* WalkRemove with os.Remove left out: the file stays.
WalkRemoveKeeps(p) ==
    /\ pc[p] = "walk_remove"
    /\ LET f == frame[p]
       IN  /\ files' = files
           /\ nWrites' = nWrites + 1
           /\ WalkNext(p, [f EXCEPT !.todo = Tail(@), !.cur = Nil,
                                        !.items = Append(@, f.cur),
                                        !.rev = @ + 1])
    /\ UNCHANGED <<isNamespaced, dirs, watchers, muWatchers, subs, opsLeft,
                   nEvents>>

\* DeleteCollection's visitFunc: _ = os.Remove(path); appendItem(v, obj).
WalkRemove(p) ==
    /\ pc[p] = "walk_remove"
    /\ LET f == frame[p]
           path == Head(f.todo)
       IN  /\ files' = MapDel(files, path)
           /\ nWrites' = IF path \in DOMAIN files THEN nWrites + 1 ELSE nWrites
           /\ WalkNext(p, [f EXCEPT !.todo = Tail(@), !.cur = Nil,
                                        !.items = Append(@, f.cur),
                                        !.rev = IF path \in DOMAIN files
                                                THEN @ + 1 ELSE @])
    /\ UNCHANGED <<isNamespaced, dirs, watchers, muWatchers, subs, opsLeft,
                   nEvents>>

\* ------------------------------------------------------------------ List

ListCall(p) ==
    /\ Calls(p)
    /\ \E ns \in CtxNamespaces :
          WalkRoot(p, [op |-> "List", ns |-> ns, todo |-> << >>, items |-> << >>,
                       rev |-> nWrites])
    /\ UNCHANGED <<isNamespaced, dirs, files, watchers, muWatchers, subs,
                   nEvents, nWrites>>

\* ------------------------------------------------------------------ DeleteCollection

DeleteCollectionCall(p) ==
    /\ Calls(p)
    /\ \E ns \in CtxNamespaces :
          WalkRoot(p, [op |-> "DeleteCollection", ns |-> ns, todo |-> << >>,
                       items |-> << >>, cur |-> Nil, reg0 |-> Range(watchers),
                       rev |-> nWrites, pre |-> files])
    /\ UNCHANGED <<isNamespaced, dirs, files, watchers, muWatchers, subs,
                   nEvents, nWrites>>

\* ------------------------------------------------------------------ Watch

\* WatchCall with the subscription registered at once, before its snapshot.
WatchCallRegisters(p) ==
    /\ Calls(p)
    /\ \E ns \in CtxNamespaces :
          /\ subs' = Append(subs, [id |-> Cardinality(DOMAIN watchers),
                                   hist |-> << >>, nread |-> 0, state |-> "created"])
          /\ watchers' = MapPut(watchers, Cardinality(DOMAIN watchers), Len(subs) + 1)
          /\ Goto(p, "watch_list",
                  [op |-> "Watch", ns |-> ns, w |-> Len(subs) + 1, todo |-> << >>,
                   items |-> << >>, i |-> 0, rev |-> nWrites])
    /\ UNCHANGED <<isNamespaced, dirs, files, muWatchers, nEvents, nWrites>>

\* jw := &jsonWatch{id: len(f.watchers), f: f, ch: make(chan watch.Event, 10)}
WatchCall(p) ==
    /\ Calls(p)
    /\ \E ns \in CtxNamespaces :
          /\ subs' = Append(subs, [id |-> Cardinality(DOMAIN watchers),
                                   hist |-> << >>, nread |-> 0, state |-> "created"])
          /\ Goto(p, "watch_list",
                  [op |-> "Watch", ns |-> ns, w |-> Len(subs) + 1, todo |-> << >>,
                   items |-> << >>, i |-> 0, rev |-> nWrites])
    /\ UNCHANGED <<isNamespaced, dirs, files, watchers, muWatchers, nEvents,
                   nWrites>>

\* list, err := f.List(ctx, options)
WatchList(p) ==
    /\ pc[p] = "watch_list"
    /\ WalkRoot(p, frame[p])
    /\ UNCHANGED <<isNamespaced, dirs, files, watchers, muWatchers, subs, opsLeft,
                   nEvents, nWrites>>

\* WatchSend with every event pointing at one loop variable: each carries
\* the last item of the list.
WatchSendAliased(p) ==
    /\ pc[p] = "watch_send"
    /\ frame[p].i < Len(frame[p].items)
    /\ LET f == frame[p]
       IN  /\ ChanLen(f.w) < ChanCap
           /\ subs' = [subs EXCEPT ![f.w].hist =
                          Append(@, [id |-> 0, type |-> "Added",
                                     obj |-> f.items[Len(f.items)]])]
           /\ Goto(p, "watch_send", [f EXCEPT !.i = @ + 1])
    /\ UNCHANGED <<isNamespaced, dirs, files, watchers, muWatchers, opsLeft,
                   nEvents, nWrites>>

\* jw.ch <- watch.Event{Type: watch.Added, Object: items[i]}; i++
\* (an event of the snapshot is no broadcast: it carries id 0).
WatchSend(p) ==
    /\ pc[p] = "watch_send"
    /\ frame[p].i < Len(frame[p].items)
    /\ LET f == frame[p]
       IN  /\ ChanLen(f.w) < ChanCap
           /\ subs' = [subs EXCEPT ![f.w].hist =
                          Append(@, [id |-> 0, type |-> "Added",
                                     obj |-> f.items[f.i + 1]])]
           /\ Goto(p, "watch_send", [f EXCEPT !.i = @ + 1])
    /\ UNCHANGED <<isNamespaced, dirs, files, watchers, muWatchers, opsLeft,
                   nEvents, nWrites>>

\* f.muWatchers.Lock(): the writer announces itself, one writer at a time.
WatchLock(p) ==
    /\ pc[p] = "watch_send"
    /\ frame[p].i >= Len(frame[p].items)
    /\ muWatchers.writer = None
    /\ muWatchers' = [muWatchers EXCEPT !.writer = p]
    /\ Goto(p, "watch_register", frame[p])
    /\ UNCHANGED <<isNamespaced, dirs, files, watchers, subs, opsLeft,
                   nEvents, nWrites>>

\* The readers are gone: f.watchers[jw.id] = jw; Unlock(); return jw, nil.
WatchRegister(p) ==
    /\ pc[p] = "watch_register"
    /\ muWatchers.readers = {}
    /\ LET f == frame[p]
       IN  /\ watchers' = MapPut(watchers, subs[f.w].id, f.w)
           /\ subs' = [subs EXCEPT ![f.w].state = "active"]
           /\ Return(p, [Result("Watch", f.ns, None, None, Nil) EXCEPT
                            !.obj = [w |-> f.w, items |-> f.items]])
    /\ muWatchers' = [muWatchers EXCEPT !.writer = None]
    /\ UNCHANGED <<isNamespaced, dirs, files, opsLeft, nEvents, nWrites>>

\* ------------------------------------------------------------------ Stop

\* w.f.muWatchers.Lock(), on a subscription Watch has returned.
StopCall(p) ==
    /\ Calls(p)
    /\ muWatchers.writer = None
    /\ \E w \in 1..Len(subs) :
          /\ subs[w].state = "active"
          /\ subs' = [subs EXCEPT ![w].state = "stopping"]
          /\ Goto(p, "stop_delete", [op |-> "Stop", w |-> w])
    /\ muWatchers' = [muWatchers EXCEPT !.writer = p]
    /\ UNCHANGED <<isNamespaced, dirs, files, watchers, nEvents, nWrites>>

\* StopDelete with the delete left out: the registry keeps the subscription.
StopDeleteKeeps(p) ==
    /\ pc[p] = "stop_delete"
    /\ muWatchers.readers = {}
    /\ LET w == frame[p].w
       IN  /\ watchers' = watchers
           /\ subs' = [subs EXCEPT ![w].state = "stopped"]
           /\ Return(p, [Result("Stop", None, None, None, Nil) EXCEPT !.obj = [w |-> w]])
    /\ muWatchers' = [muWatchers EXCEPT !.writer = None]
    /\ UNCHANGED <<isNamespaced, dirs, files, opsLeft, nEvents, nWrites>>

\* The readers are gone: delete(w.f.watchers, w.id); Unlock().
StopDelete(p) ==
    /\ pc[p] = "stop_delete"
    /\ muWatchers.readers = {}
    /\ LET w == frame[p].w
       IN  /\ watchers' = MapDel(watchers, subs[w].id)
           /\ subs' = [subs EXCEPT ![w].state = "stopped"]
           /\ Return(p, [Result("Stop", None, None, None, Nil) EXCEPT !.obj = [w |-> w]])
    /\ muWatchers' = [muWatchers EXCEPT !.writer = None]
    /\ UNCHANGED <<isNamespaced, dirs, files, opsLeft, nEvents, nWrites>>

\* ------------------------------------------------------------------ the consumer

\* The caller of Watch receives from ResultChan().
Recv(w) ==
    /\ subs[w].state # "created"
    /\ subs[w].nread < Len(subs[w].hist)
    /\ subs' = [subs EXCEPT ![w].nread = @ + 1]
    /\ UNCHANGED <<isNamespaced, dirs, files, watchers, muWatchers, pc, frame, ret,
                   opsLeft, nEvents, nWrites>>

\* ------------------------------------------------------------------ Next

Next ==
    \/ \E p \in Procs : GetCall(p)
    \/ \E p \in Procs : ListCall(p)
    \/ \E p \in Procs : CreateCall(p)
    \/ \E p \in Procs : CreateProbe(p)
    \/ \E p \in Procs : CreateWrite(p)
    \/ \E p \in Procs : UpdateCall(p)
    \/ \E p \in Procs : UpdateDir(p)
    \/ \E p \in Procs : UpdateWrite(p)
    \/ \E p \in Procs : DeleteCall(p)
    \/ \E p \in Procs : DeleteProbe(p)
    \/ \E p \in Procs : DeleteGet(p)
    \/ \E p \in Procs : DeleteRemove(p)
    \/ \E p \in Procs : DeleteCollectionCall(p)
    \/ \E p \in Procs : WalkVisit(p)
    \/ \E p \in Procs : WalkRemove(p)
    \/ \E p \in Procs : WatchCall(p)
    \/ \E p \in Procs : WatchList(p)
    \/ \E p \in Procs : WatchSend(p)
    \/ \E p \in Procs : WatchLock(p)
    \/ \E p \in Procs : WatchRegister(p)
    \/ \E p \in Procs : StopCall(p)
    \/ \E p \in Procs : StopDelete(p)
    \/ \E p \in Procs : NotifyRLock(p)
    \/ \E p \in Procs : NotifySend(p)
    \/ \E p \in Procs : NotifyRUnlock(p)
    \/ \E w \in 1..Len(subs) : Recv(w)

Spec == Init /\ [][Next]_vars

\* A cluster-scoped store, with more calls.
InitHub ==
    /\ isNamespaced = FALSE
    /\ Populated(0)
    /\ NewFilepathREST(MaxHubOps)

SpecHub == InitHub /\ [][Next]_vars

\* A new store over a directory that already holds up to MaxObjs objects.
InitSnapshot ==
    /\ isNamespaced \in BOOLEAN
    /\ \E n \in 0..MaxObjs : Populated(n)
    /\ NewFilepathREST(MaxSnapshotOps)

SpecSnapshot == InitSnapshot /\ [][Next]_vars

\* The tree holding n1 objects (o01..) in namespace ns1 and n2 in ns2, as
\* Create leaves them; a cluster-scoped store holds the n1 objects in its root.
PopulatedScopes(n1, n2) ==
    /\ dirs = {objRootPath}
                \cup (IF isNamespaced /\ n1 > 0 THEN {Join(<<DirSeg("ns1")>>)} ELSE {})
                \cup (IF isNamespaced /\ n2 > 0 THEN {Join(<<DirSeg("ns2")>>)} ELSE {})
    /\ files = [q \in {objectFileName("ns1", ObjNames[i]) : i \in 1..n1}
                       \cup {objectFileName("ns2", ObjNames[i]) : i \in 1..n2} |->
                   Encode([name |-> q[Len(q)].base, val |-> 1])]

\* A new store over a directory that holds MaxScopeObjs objects in one scope
\* and, when namespaced, up to one in another.
InitScopes ==
    /\ isNamespaced \in BOOLEAN
    /\ \E n2 \in 0..1 :
          /\ n2 > 0 => isNamespaced
          /\ PopulatedScopes(MaxScopeObjs, n2)
    /\ NewFilepathREST(MaxScopeOps)

SpecScopes == InitScopes /\ [][Next]_vars

\* A cluster-scoped store as a Watch over ChanCap objects leaves it when the
\* consumer has received at most one event: the subscription is registered
\* under id 0 and its channel holds the snapshot, full or with one free slot.
InitFull ==
    /\ isNamespaced = FALSE
    /\ Populated(ChanCap)
    /\ \E n \in 0..1 :
          subs = <<[id |-> 0,
                    hist |-> [k \in 1..ChanCap |->
                                 [id |-> 0, type |-> "Added",
                                  obj |-> [name |-> ObjNames[k], val |-> 1]]],
                    nread |-> n, state |-> "active"]>>
    /\ watchers = MapPut(<< >>, 0, 1)
    /\ muWatchers = [readers |-> {}, writer |-> None]
    /\ pc = [p \in Procs |-> "idle"]
    /\ frame = [p \in Procs |-> NoFrame]
    /\ ret = [p \in Procs |-> NoRet]
    /\ opsLeft = MaxFullOps
    /\ nEvents = 0
    /\ nWrites = 0

\* The goroutine of a caller keeps running: a send into a channel with room
\* completes, a lock that is free is taken, and the call returns.
Fairness ==
    \A p \in Procs :
        /\ WF_pc(NotifyRLock(p))
        /\ WF_subs(NotifySend(p))
        /\ WF_pc(NotifyRUnlock(p))
        /\ WF_pc(StopDelete(p))

\* The hub under back-pressure: the calls that broadcast, Stop, and the
\* consumer.
NextFull ==
    \/ \E p \in Procs : CreateCall(p)
    \/ \E p \in Procs : CreateProbe(p)
    \/ \E p \in Procs : CreateWrite(p)
    \/ \E p \in Procs : UpdateCall(p)
    \/ \E p \in Procs : UpdateDir(p)
    \/ \E p \in Procs : UpdateWrite(p)
    \/ \E p \in Procs : DeleteCall(p)
    \/ \E p \in Procs : DeleteProbe(p)
    \/ \E p \in Procs : DeleteGet(p)
    \/ \E p \in Procs : DeleteRemove(p)
    \/ \E p \in Procs : StopCall(p)
    \/ \E p \in Procs : StopDelete(p)
    \/ \E p \in Procs : NotifyRLock(p)
    \/ \E p \in Procs : NotifySend(p)
    \/ \E p \in Procs : NotifyRUnlock(p)
    \/ \E w \in 1..Len(subs) : Recv(w)

SpecFull == InitFull /\ [][NextFull]_vars /\ Fairness

\* ------------------------------------------------------------------ pkg/store/file

\* The segments of the generic store's r.objRootPath.
objRootSegs == <<DirSeg("data")>>

\* strings.Split(path, "/") of a path Walk hands to the callback: the
\* segments of the root, then those below it.
Split(path) == objRootSegs \o path

\* store.GetNSNKey(types.NamespacedName{Name, Namespace})
GetNSNKey(namespace, name) == [ns |-> namespace, name |-> name]

\* file.filename: the path of a key, below r.objRootPath.
filename(key) ==
    IF key.ns # ""
    THEN Join(<<DirSeg(key.ns), JsonSeg(key.name)>>)
    ELSE Join(<<JsonSeg(key.name)>>)

\* file.readFile: os.ReadFile(r.filename(key)) and codec.Decode.
readFile(key) == read(filename(key))

\* The key visitDir's callback finds for a .json file, or its error: both
\* fpSplit and objRootSplit are strings.Split(path, "/").
visitDirKey(path) ==
    LET fpSplit == Split(path)
        objRootSplit == Split(path)
        name == fpSplit[Len(fpSplit)].base
        namespace == fpSplit[Len(fpSplit) - 1].base
    IN  IF Len(fpSplit) <= Len(objRootSplit)
        THEN [err |-> "PathSmallerThanRoot", key |-> GetNSNKey("", "")]
        ELSE IF Len(fpSplit) = Len(objRootSplit) + 1
        THEN [err |-> None, key |-> GetNSNKey("", name)]
        ELSE [err |-> None, key |-> GetNSNKey(namespace, name)]

\* What visitDir returns: its error and, in obj.items, the (key, object)
\* pairs it handed to visitorFunc.
VisitDirResult(f, err) ==
    Result("visitDir", None, None, err, [items |-> f.visited])

\* filepath.Walk(r.objRootPath, ...): os.Lstat of the root and its entries.
VisitDirCall(p) ==
    /\ Calls(p)
    /\ LET f == [op |-> "visitDir", todo |-> ReadDir(objRootPath),
                 visited |-> << >>]
       IN  IF objRootPath \notin dirs
           THEN Return(p, VisitDirResult(f, "ENOENT"))
           ELSE Goto(p, "visit", f)
    /\ UNCHANGED <<isNamespaced, dirs, files, watchers, muWatchers, subs,
                   nEvents, nWrites>>

\* The walk reaches its next path and calls the callback: a directory is
\* read, a file that is not .json is skipped, and a .json file gets its key,
\* is read and is handed to visitorFunc; the callback's error ends the walk.
\* With nothing left visitDir returns nil.
VisitDirStep(p) ==
    /\ pc[p] = "visit"
    /\ LET f == frame[p]
       IN  IF f.todo = << >>
           THEN Return(p, VisitDirResult(f, None))
           ELSE LET path == Head(f.todo)
                    rest == Tail(f.todo)
                    k == visitDirKey(path)
                IN  IF ~exists(path)
                    THEN Return(p, VisitDirResult(f, "ENOENT"))
                    ELSE IF path \in dirs
                    THEN Goto(p, "visit", [f EXCEPT !.todo = ReadDir(path) \o rest])
                    ELSE IF ~HasJsonSuffix(path)
                    THEN Goto(p, "visit", [f EXCEPT !.todo = rest])
                    ELSE IF k.err # None
                    THEN Return(p, VisitDirResult(f, k.err))
                    ELSE IF readFile(k.key).err # None
                    THEN Return(p, VisitDirResult(f, readFile(k.key).err))
                    ELSE Goto(p, "visit",
                              [f EXCEPT !.todo = rest,
                                        !.visited =
                                            Append(@, [key |-> k.key,
                                                       obj |-> readFile(k.key).obj])])
    /\ UNCHANGED <<isNamespaced, dirs, files, watchers, muWatchers, subs, opsLeft,
                   nEvents, nWrites>>

\* The files a tree under the generic store's root can hold: objects a and b
\* in the root and in the namespaces, and a file b that is not .json.
TreeFiles ==
    {<<JsonSeg(n)>> : n \in {"a", "b"}}
    \cup {<<DirSeg(ns), JsonSeg(n)>> : ns \in Namespaces, n \in {"a", "b"}}
    \cup {<<DirSeg("ns1"), [base |-> "b", ext |-> ""]>>}

\* A generic store over a tree that writeFile has left: any of TreeFiles,
\* each in its directory.
InitVisit ==
    /\ isNamespaced = FALSE
    /\ \E S \in SUBSET TreeFiles :
          /\ dirs = {objRootPath} \cup {SubSeq(q, 1, Len(q) - 1) : q \in S}
          /\ files = [q \in S |->
                         IF HasJsonSuffix(q)
                         THEN Encode([name |-> q[Len(q)].base, val |-> 1])
                         ELSE <<"text", "", 0>>]
    /\ NewFilepathREST(MaxVisitOps)

NextVisit ==
    \/ \E p \in Procs : VisitDirCall(p)
    \/ \E p \in Procs : VisitDirStep(p)

SpecVisit == InitVisit /\ [][NextVisit]_vars

\* ------------------------------------------------------------------ properties

Subs == 1..Len(subs)

\* The positions of the broadcast event e in the channel history of w.
Pos(w, e) == {i \in 1..Len(subs[w].hist) : subs[w].hist[i].id = e}

Mutating == {"Create", "Update", "Delete"}

\* C1: all subscriptions of a store observe the broadcast events in the same
\* relative order: when e1 and e2 were both delivered to S1 and to S2, e1
\* precedes e2 in S1's channel iff it does in S2's.
C1_SameRelativeOrder ==
    \A w1, w2 \in Subs :
        \A i1, j1 \in 1..Len(subs[w1].hist) :
            \A i2, j2 \in 1..Len(subs[w2].hist) :
                (/\ subs[w1].hist[i1].id # 0
                 /\ subs[w1].hist[j1].id # 0
                 /\ subs[w1].hist[i1].id = subs[w2].hist[i2].id
                 /\ subs[w1].hist[j1].id = subs[w2].hist[j2].id
                 /\ i1 < j1)
                => i2 < j2

\* C2: a subscription that is alive (returned by Watch, Stop not called) when
\* an event is broadcast receives that event, whatever Watch and Stop calls
\* were made on other subscriptions.
C2_AliveReceivesEveryEvent ==
    \A p \in Procs :
        ret[p].op \in Mutating /\ ret[p].err = None
        => \A w \in ret[p].alive : Pos(w, ret[p].ev) # {}

\* The type of the event a successful mutating call broadcasts.
TypeOf(r) ==
    CASE r.op = "Create" -> "Added"
      [] r.op = "Update" -> IF r.created THEN "Added" ELSE "Modified"
      [] r.op = "Delete" -> "Deleted"

\* C3: a successful Create, Update or Delete has enqueued exactly one event,
\* of the type of the operation and carrying its object, into the channel of
\* every subscription registered when it broadcast, and into no other; a
\* call that returns an error never reaches the broadcast.
C3_OneEventPerMutation ==
    \A p \in Procs :
        /\ pc[p] \in {"notify", "notify_send"}
           => /\ frame[p].result.err = None
              /\ frame[p].result.ev = frame[p].ev.id
              /\ frame[p].ev.id # 0
        /\ ret[p].op \in Mutating
           => IF ret[p].err = None
              THEN /\ ret[p].ev # 0
                   /\ ret[p].typ = TypeOf(ret[p])
                   /\ \A w \in Subs :
                         /\ Cardinality(Pos(w, ret[p].ev))
                               = IF w \in ret[p].reg THEN 1 ELSE 0
                         /\ \A i \in Pos(w, ret[p].ev) :
                               /\ subs[w].hist[i].type = ret[p].typ
                               /\ subs[w].hist[i].obj = ret[p].obj
              ELSE ret[p].ev = 0

\* C3 witness: a successful mutating call was delivered to two subscriptions.
C3_Witness ==
    \E p \in Procs :
        /\ ret[p].op \in Mutating
        /\ ret[p].err = None
        /\ Cardinality(ret[p].reg) = 2
        /\ \A w \in ret[p].reg : Pos(w, ret[p].ev) # {}

\* C4: DeleteCollection broadcasts a Deleted event carrying the pre-deletion
\* object for each file it removes: every subscription registered during
\* the call holds one for every object the call returned.
C4_DeleteCollectionBroadcasts ==
    \A p \in Procs :
        ret[p].op = "DeleteCollection" /\ ret[p].err = None
        => \A w \in ret[p].reg : \A k \in 1..Len(ret[p].obj.items) :
              \E i \in 1..Len(subs[w].hist) :
                  /\ subs[w].hist[i].type = "Deleted"
                  /\ subs[w].hist[i].obj = ret[p].obj.items[k]

\* The files below the directory a List, Watch or DeleteCollection of scope
\* ns walks.
ScopeFiles(ns) ==
    {q \in DOMAIN files :
        /\ Len(q) > Len(objectDirName(ns))
        /\ SubSeq(q, 1, Len(objectDirName(ns))) = objectDirName(ns)}

\* The Added event of the snapshot for an object.
SnapshotEvent(obj) == [id |-> 0, type |-> "Added", obj |-> obj]

\* The first n events of w's channel are the snapshot of items[1..n].
SnapshotPrefix(w, items, n) ==
    /\ Len(subs[w].hist) >= n
    /\ \A k \in 1..n : subs[w].hist[k] = SnapshotEvent(items[k])

C6_WatchNeverBlocks ==
    \A p \in Procs :
        pc[p] = "watch_send" /\ frame[p].i < Len(frame[p].items)
        => ChanLen(frame[p].w) < ChanCap

\* C7: once Stop() on a subscription has returned, no event is enqueued
\* into its channel again.
C7_NoEventAfterStop ==
    [][\A w \in Subs :
          subs[w].state = "stopped" => subs'[w].hist = subs[w].hist]_vars

\* C7 witness: a broadcast is under way after Stop() on a subscription has
\* returned.
C7_Witness ==
    \E w \in Subs, p \in Procs :
        /\ subs[w].state = "stopped"
        /\ pc[p] = "notify_send"

\* C8: in a namespaced store with an object in one namespace, List scoped to
\* another namespace, in which nothing was ever created (its directory was
\* never made), succeeds and returns an empty list.
C8_NamespaceIsolation ==
    \A p \in Procs, ns1 \in Namespaces, ns2 \in Namespaces :
        (/\ isNamespaced
         /\ ns1 # ns2
         /\ ret[p].op = "List"
         /\ ret[p].ns = ns2
         /\ Join(<<DirSeg(ns2)>>) \notin dirs
         /\ \E q \in DOMAIN files : q[1] = DirSeg(ns1))
        => /\ ret[p].err = None
           /\ ret[p].obj.items = << >>

\* C9: Create on a key whose file exists fails with AlreadyExists, writes
\* nothing and broadcasts nothing.
C9_CreateOnExisting ==
    [][\A p \in Procs :
          (/\ pc[p] = "create_probe"
           /\ pc'[p] # "create_probe"
           /\ exists(objectFileName(frame[p].ns, frame[p].name)))
          => /\ pc'[p] = "idle"
             /\ ret'[p].err = "AlreadyExists"
             /\ UNCHANGED <<dirs, files, watchers, subs, nEvents>>]_vars

\* The errors of the code that say that an object or a namespace is absent.
NotFoundKind == {"NotFound", "ErrFileNotExists", "ErrNamespaceNotExists"}

\* The result of p's call when it is a Delete past its removal.
DeleteResult(p) ==
    IF pc[p] \in {"notify", "notify_send"} THEN frame[p].result ELSE ret[p]

\* C10: after a successful Delete(k), and until the next write, Get(k) fails
\* with NotFound; Delete(k) on a key with no file fails with an error of the
\* NotFound kind, changes no file and no directory and broadcasts nothing.
C10_Delete ==
    /\ [](\A p \in Procs :
            (/\ DeleteResult(p).op = "Delete"
             /\ DeleteResult(p).err = None
             /\ DeleteResult(p).rev = nWrites)
            => Get(DeleteResult(p).ns, DeleteResult(p).name).err = "NotFound")
    /\ [][\A p \in Procs :
            (/\ pc[p] = "delete_probe"
             /\ pc'[p] # "delete_probe"
             /\ ~exists(objectFileName(frame[p].ns, frame[p].name)))
            => /\ pc'[p] = "idle"
               /\ ret'[p].op = "Delete"
               /\ ret'[p].err \in NotFoundKind
               /\ UNCHANGED <<dirs, files, watchers, subs, nEvents>>]_vars

\* C10 witness: a Delete has succeeded on a stored object, and a Get of the
\* same key, made after the removal and before any other write, has failed
\* with NotFound.
C10_Witness ==
    \E p, q \in Procs :
        /\ ret[p].op = "Delete"
        /\ ret[p].err = None
        /\ ret[p].rev = nWrites
        /\ ret[q].op = "Get"
        /\ ret[q].err = "NotFound"
        /\ ret[q].rev = ret[p].rev
        /\ ret[q].ns = ret[p].ns
        /\ ret[q].name = ret[p].name

\* The result of p's call: what it will return once its broadcast is over,
\* or what it has returned.
Outcome(p) ==
    IF pc[p] \in {"notify", "notify_send"} THEN frame[p].result ELSE ret[p]

\* What a successful Create of r.obj under r's key leaves in the store: the
\* directory of the scope, and the key's file holding the object.
CreatePost(r) ==
    /\ objectDirName(r.ns) \in dirs
    /\ objectFileName(r.ns, r.name) \in DOMAIN files
    /\ files[objectFileName(r.ns, r.name)] = Encode(r.obj)

\* C11: Update with forceAllowCreate on a missing key behaves as Create: it
\* takes the create path exactly when the key's file is missing, and then,
\* like a successful Create, it writes the file holding the mutator's result,
\* broadcasts one Added event carrying it and returns created = true; until
\* the next write the store is in the state Create leaves.
C11_UpdateCreates ==
    /\ [](\A p \in Procs :
            LET r == Outcome(p)
            IN  /\ (r.op = "Create" /\ r.err = None)
                   \/ (r.op = "Update" /\ r.err = None /\ r.created)
                   => /\ r.typ = "Added"
                      /\ r.ev # 0
                      /\ r.obj.name = r.name
                      /\ r.rev = nWrites => CreatePost(r)
                /\ (ret[p].op = "Update" /\ ret[p].err = None /\ ret[p].created)
                   => \A w \in ret[p].reg :
                         /\ Cardinality(Pos(w, ret[p].ev)) = 1
                         /\ \A i \in Pos(w, ret[p].ev) :
                               subs[w].hist[i] = [id |-> ret[p].ev, type |-> "Added",
                                                  obj |-> ret[p].obj])
    /\ [][\A p \in Procs :
            /\ (pc[p] = "idle" /\ pc'[p] = "update_dir")
               => frame'[p].isCreate
                     = (Get(frame'[p].ns, frame'[p].name).err = "NotFound")
            /\ (pc[p] = "update_write" /\ pc'[p] = "notify")
               => /\ frame'[p].result.created = frame[p].isCreate
                  /\ frame'[p].result.obj = frame[p].updatedObj]_vars

\* C11 witness: an Update has created an object with value 2 in a store with
\* a registered subscription, which holds its Added event, and no file was
\* written since.
C11_Witness ==
    \E p \in Procs :
        /\ ret[p].op = "Update"
        /\ ret[p].err = None
        /\ ret[p].created
        /\ ret[p].obj.val = 2
        /\ ret[p].rev = nWrites
        /\ ret[p].reg # {}
        /\ \A w \in ret[p].reg : Pos(w, ret[p].ev) # {}

\* C12: after a successful Create(k, r), and until the next write, Get(k)
\* succeeds and yields an object equal to r.
C12_CreateGetRoundTrip ==
    \A p \in Procs :
        LET r == Outcome(p)
        IN  (r.op = "Create" /\ r.err = None /\ r.rev = nWrites)
            => /\ Get(r.ns, r.name).err = None
               /\ Get(r.ns, r.name).obj = r.obj
               /\ r.obj.name = r.name

\* C12 witness: a Create of an object with value 2 has succeeded, and a Get
\* of its key, made after the write and before any other, returned it.
C12_Witness ==
    \E p, q \in Procs :
        /\ ret[p].op = "Create"
        /\ ret[p].err = None
        /\ ret[p].obj.val = 2
        /\ ret[p].rev = nWrites
        /\ ret[q].op = "Get"
        /\ ret[q].err = None
        /\ ret[q].rev = ret[p].rev
        /\ ret[q].ns = ret[p].ns
        /\ ret[q].name = ret[p].name
        /\ ret[q].obj = ret[p].obj

\* The files of the tree fs below the directory a call of scope ns walks.
ScopeOf(fs, ns) ==
    {q \in DOMAIN fs :
        /\ Len(q) > Len(objectDirName(ns))
        /\ SubSeq(q, 1, Len(objectDirName(ns))) = objectDirName(ns)}

\* The list items holds exactly the objects of the files S of the tree fs,
\* each as often as S holds it, in any order.
SameObjects(items, fs, S) ==
    /\ Len(items) = Cardinality(S)
    /\ \A q \in S :
          Cardinality({k \in 1..Len(items) : items[k] = Decode(fs[q])})
          = Cardinality({q2 \in S : Decode(fs[q2]) = Decode(fs[q])})

\* C13: a List of a scope, with no write from its call on, succeeds when the
\* scope holds an object, and a List that succeeds returns exactly one record
\* per object file of the scope, equal to the object stored, and no object of
\* another scope.
C13_ListReturnsScope ==
    \A p \in Procs :
        (/\ ret[p].op = "List"
         /\ ret[p].rev = nWrites)
        => /\ ScopeOf(files, ret[p].ns) # {} => ret[p].err = None
           /\ ret[p].err = None
              => SameObjects(ret[p].obj.items, files, ScopeOf(files, ret[p].ns))

\* C13 witness: a namespaced store holds objects in two namespaces, a Create
\* has succeeded in one of them, and a List of that namespace, with no write
\* since its call, has returned three objects, the created one among them.
C13_Witness ==
    \E p, q \in Procs :
        /\ isNamespaced
        /\ ret[q].op = "Create"
        /\ ret[q].err = None
        /\ ret[p].op = "List"
        /\ ret[p].err = None
        /\ ret[p].ns = ret[q].ns
        /\ ret[p].ns # NoNs
        /\ ret[p].rev = nWrites
        /\ Len(ret[p].obj.items) = 3
        /\ \E k \in 1..3 : ret[p].obj.items[k] = ret[q].obj
        /\ DOMAIN files # ScopeOf(files, ret[p].ns)

\* C14: a successful DeleteCollection of a scope, with no other write from
\* its call on, has removed every object file of the scope, returns exactly
\* the objects those files held when it was called, has left every file of
\* another scope as it was, and a List of the scope made after it returns the
\* empty list (a List made with no write from its call on was made after the
\* last removal when a file was removed; before it, it may have failed only
\* because the scope's directory was not made yet).
C14_DeleteCollection ==
    \A p \in Procs :
        (/\ ret[p].op = "DeleteCollection"
         /\ ret[p].err = None
         /\ ret[p].rev = nWrites)
        => LET pre == ret[p].pre
               scope == ScopeOf(pre, ret[p].ns)
           IN  /\ ScopeOf(files, ret[p].ns) = {}
               /\ SameObjects(ret[p].obj.items, pre, scope)
               /\ DOMAIN files = DOMAIN pre \ scope
               /\ \A q \in DOMAIN files : files[q] = pre[q]
               /\ objectDirName(ret[p].ns) \in dirs
               /\ \A q \in Procs :
                     (/\ ret[q].op = "List"
                      /\ ret[q].ns = ret[p].ns
                      /\ ret[q].rev = nWrites)
                     => /\ Len(ret[p].obj.items) > 0 => ret[q].err = None
                        /\ ret[q].err = None => ret[q].obj.items = << >>

\* C14 witness: DeleteCollection has removed the two objects of a namespace
\* while another namespace holds an object, and a List of the namespace made
\* after it has returned.
C14_Witness ==
    \E p, q \in Procs :
        /\ isNamespaced
        /\ ret[p].op = "DeleteCollection"
        /\ ret[p].err = None
        /\ ret[p].ns # NoNs
        /\ ret[p].rev = nWrites
        /\ Len(ret[p].obj.items) = 2
        /\ files # << >>
        /\ ret[q].op = "List"
        /\ ret[q].err = None
        /\ ret[q].ns = ret[p].ns
        /\ ret[q].rev = nWrites

\* C15: a Create, Update or Delete that wrote its file after a Watch had
\* finished its List, and took the registry lock for its broadcast before
\* that Watch registered the subscription, does not deliver its event to the
\* subscription: the subscription was not among those the broadcast ranged
\* over and its channel never holds the event, neither while the Watch is
\* still sending its snapshot nor after it has registered.
C15_SnapshotRegistrationGap ==
    \A p \in Procs :
        LET r == Outcome(p)
        IN  (r.op \in Mutating /\ r.err = None /\ pc[p] # "notify")
            => \A w \in r.gap :
                  /\ w \notin r.reg
                  /\ Pos(w, r.ev) = {}
                  /\ \A q \in Procs :
                        (pc[q] \in {"watch_send", "watch_register"} /\ frame[q].w = w)
                        => /\ frame[q].rev < r.rev
                           /\ \A k \in 1..Len(subs[w].hist) : subs[w].hist[k].id = 0

\* C15 witness: the lost event. A Create has returned after writing its file
\* in the gap of a subscription; the Watch has registered and returned that
\* subscription with an empty snapshot; every caller is idle, the file is
\* there, and the subscription's channel is empty.
C15_Witness ==
    \E p, q \in Procs :
        /\ pc[p] = "idle"
        /\ pc[q] = "idle"
        /\ ret[p].op = "Create"
        /\ ret[p].err = None
        /\ ret[q].op = "Watch"
        /\ ret[q].err = None
        /\ ret[q].ns = ret[p].ns
        /\ ret[q].obj.w \in ret[p].gap
        /\ ret[q].obj.items = << >>
        /\ subs[ret[q].obj.w].state = "active"
        /\ ret[q].obj.w \in Range(watchers)
        /\ subs[ret[q].obj.w].hist = << >>
        /\ objectFileName(ret[p].ns, ret[p].name) \in DOMAIN files

\* The caller is inside notifyWatchers at a send into a full channel.
Blocked(p) ==
    /\ pc[p] = "notify_send"
    /\ frame[p].order # << >>
    /\ ChanLen(Head(frame[p].order)) = ChanCap

\* C16: a mutating call whose broadcast has reached a subscription with a
\* full channel does not move, and keeps the read lock, until the channel has
\* room; a call that has returned has enqueued its event exactly once into
\* the channel of every subscription it ranged over; and a call inside its
\* broadcast returns unless, from some point on, it stays at a full channel
\* for ever (the consumer frees no space).
C16_BackPressure ==
    /\ [][\A p \in Procs :
            Blocked(p) => /\ pc'[p] = pc[p]
                          /\ frame'[p] = frame[p]
                          /\ p \in muWatchers'.readers]_vars
    /\ [](\A p \in Procs :
            (ret[p].op \in Mutating /\ ret[p].err = None)
            => \A w \in ret[p].reg : Cardinality(Pos(w, ret[p].ev)) = 1)
    /\ \A p \in Procs :
          []<>(pc[p] # "notify_send") \/ <>[]Blocked(p)

\* C16 witness: two mutating calls have returned after enqueueing their
\* events into a channel that held at least ChanCap - 1 events from the
\* start; the consumer has received two events, and the channel is full.
C16_Witness ==
    /\ \A p \in Procs :
          /\ pc[p] = "idle"
          /\ ret[p].op \in Mutating
          /\ ret[p].err = None
          /\ ret[p].reg = {1}
          /\ Pos(1, ret[p].ev) # {}
    /\ Len(subs[1].hist) = ChanCap + 2
    /\ subs[1].nread = 2

\* C17: Stop() always eventually returns: a consumer that has called Stop,
\* and receives no more, gets the registry lock and leaves, whatever the
\* broadcasters are doing (one of them may hold the read lock, blocked at the
\* full channel of that very subscription).
C17_StopReturns ==
    \A p \in Procs : (pc[p] = "stop_delete") ~> (pc[p] = "idle")

\* C18: Stop() on subscription W removes only W from the registry, and
\* registering a subscription never replaces one that is registered: every
\* other subscription registered before the step is registered after it.
C18_StopRemovesOnlyW ==
    [][\A p \in Procs :
          /\ (pc[p] = "stop_delete" /\ pc'[p] = "idle")
             => \A w \in Range(watchers) \ {frame[p].w} : w \in Range(watchers')
          /\ (pc[p] = "watch_register" /\ pc'[p] = "idle")
             => \A w \in Range(watchers) : w \in Range(watchers')]_vars

\* The .json files of the tree.
JsonFiles == {q \in DOMAIN files : HasJsonSuffix(q)}

\* C19: visitDir over a tree that does not change returns no error and has
\* handed visitorFunc every .json file exactly once, with the file's object
\* and with the key of its path (name = last segment without ".json",
\* namespace = the directory below the root, or none for a file in the
\* root), which filename() maps back to the path.
C19_VisitsEveryJsonFile ==
    \A p \in Procs :
        ret[p].op = "visitDir"
        => /\ ret[p].err = None
           /\ LET v == ret[p].obj.items
              IN  /\ \A q \in JsonFiles :
                        Cardinality({i \in 1..Len(v) : filename(v[i].key) = q}) = 1
                  /\ \A i \in 1..Len(v) :
                        LET q == filename(v[i].key)
                        IN  /\ q \in JsonFiles
                            /\ v[i].key.name = q[Len(q)].base
                            /\ v[i].key.ns = IF Len(q) = 2 THEN q[1].base ELSE ""
                            /\ v[i].obj = Decode(files[q])

\* C20: a step in which Create, Update or Delete returns the validation
\* error returns exactly that error, with no object and created false, and
\* leaves every object file, every subscription's channel and the number of
\* events built as they were.
C20_ValidationRejects ==
    [][\A p \in Procs :
          (/\ ret'[p] # ret[p]
           /\ ret'[p].op \in Mutating
           /\ ret'[p].err = "Invalid")
          => /\ ret'[p].obj = Nil
             /\ ret'[p].created = FALSE
             /\ ret'[p].ev = 0
             /\ files' = files
             /\ nWrites' = nWrites
             /\ nEvents' = nEvents
             /\ Len(subs') = Len(subs)
             /\ \A w \in 1..Len(subs) : subs'[w].hist = subs[w].hist]_vars

\* A Delete of an existing object was rejected by deleteValidation while a
\* subscription was registered: the file is there and the subscription's
\* channel holds nothing.
C20_Witness ==
    \E p \in Procs :
        /\ ret[p].op = "Delete"
        /\ ret[p].err = "Invalid"
        /\ objectFileName(ret[p].ns, ret[p].name) \in DOMAIN files
        /\ \E w \in Range(watchers) :
              /\ subs[w].state = "active"
              /\ subs[w].hist = << >>

====
